---- MODULE Spec2Model ----
(***************************************************************************)
(* attendance-tracker: the store (students, classes, attendance records),  *)
(* the write handlers of app.py and the report computed by                 *)
(* analytics_dashboard and student_management.                             *)
(*                                                                         *)
(* Strings whose characters the code inspects (as_year, names) are         *)
(* sequences of one-character strings.  A calendar date is its proleptic   *)
(* Gregorian ordinal (date.toordinal()); a DateTime is                     *)
(* ordinal * TicksPerDay + tick, the tick being the time of day.           *)
(* Percentages are kept in tenths of a percent (667 is 66.7).              *)
(***************************************************************************)
EXTENDS Integers, Sequences, FiniteSets, TLC

\* ------------------------------------------------------------------ bounds

\* Resolution of the time of day: scanned_at carries one of TicksPerDay ticks.
TicksPerDay == 2

\* Student ids are handed out up to this value.
MaxStudentId == 2

\* The same, where the requests are about cohorts.
MaxCohortStudentId == 4

\* Class ids are handed out up to this value (six classes exist after the
\* first ensure_predefined_classes; a deleted one is re-created under a new id).
MaxClassId == 7

\* Attendance rows the store holds at most.
MaxRecords == 3

\* The same, where the requests are Physical Training's over two weeks.
MaxPtRecords == 5

\* The same, where the requests are Aerospace Class's over four dates.
MaxAeroRecords == 6

\* add_attendance requests that have passed their existence check and not
\* yet inserted (requests served by concurrent threads).
MaxInflight == 1

\* Entries of a bulk_attendance request's student_ids list.
MaxBulk == 2

\* ------------------------------------------------------------------ strings

\* None, for a column or field holding a string
NULL == <<>>

\* The result of a query that finds no row (.first() or .get() giving None).
NoRow == [id |-> 0]

Digits == <<"0", "1", "2", "3", "4", "5", "6", "7", "8", "9">>

\* The characters of the model's strings in code point order.
Alphabet ==
    Digits \o
    <<"A", "B", "C", "D", "E", "F", "G", "H", "I", "J", "K", "L", "M",
      "N", "O", "P", "Q", "R", "S", "T", "U", "V", "W", "X", "Y", "Z">> \o
    <<"a", "b", "c", "d", "e", "f", "g", "h", "i", "j", "k", "l", "m",
      "n", "o", "p", "q", "r", "s", "t", "u", "v", "w", "x", "y", "z">>

CodePoint(c) == CHOOSE i \in 1..Len(Alphabet) : Alphabet[i] = c

\* str.isdigit on one character
IsDigit(c) == \E i \in 1..Len(Digits) : Digits[i] = c

DigitValue(c) == (CHOOSE i \in 1..Len(Digits) : Digits[i] = c) - 1

\* Python's < on two str values: code point by code point, a proper prefix first.
RECURSIVE StrLess(_, _)
StrLess(a, b) ==
    IF b = <<>> THEN FALSE
    ELSE IF a = <<>> THEN TRUE
    ELSE IF Head(a) = Head(b) THEN StrLess(Tail(a), Tail(b))
    ELSE CodePoint(Head(a)) < CodePoint(Head(b))

\* ''.join(filter(str.isdigit, year))
RECURSIVE FilterDigits(_)
FilterDigits(s) ==
    IF s = <<>> THEN <<>>
    ELSE IF IsDigit(Head(s)) THEN <<Head(s)>> \o FilterDigits(Tail(s))
    ELSE FilterDigits(Tail(s))

\* int(numeric_part) of a non-empty string of digits
RECURSIVE ParseInt(_)
ParseInt(s) ==
    IF s = <<>> THEN 0
    ELSE ParseInt(SubSeq(s, 1, Len(s) - 1)) * 10 + DigitValue(s[Len(s)])

\* ------------------------------------------------------------------ dates

IsLeap(y) == y % 4 = 0 /\ (y % 100 # 0 \/ y % 400 = 0)

DaysInMonth(y, m) ==
    IF m = 2 THEN (IF IsLeap(y) THEN 29 ELSE 28)
    ELSE IF m \in {4, 6, 9, 11} THEN 30 ELSE 31

RECURSIVE DaysBeforeMonth(_, _)
DaysBeforeMonth(y, m) ==
    IF m = 1 THEN 0 ELSE DaysBeforeMonth(y, m - 1) + DaysInMonth(y, m - 1)

DaysBeforeYear(y) ==
    (y - 1) * 365 + ((y - 1) \div 4) - ((y - 1) \div 100) + ((y - 1) \div 400)

\* date(y, m, d).toordinal()
Ymd2Ord(y, m, d) == DaysBeforeYear(y) + DaysBeforeMonth(y, m) + d

\* Years the model's dates fall in.
Years == 2025..2027

\* date.fromordinal(n).year, for the years of the model
YearOf(n) == CHOOSE y \in Years : DaysBeforeYear(y) < n /\ n <= DaysBeforeYear(y + 1)

\* datetime.strptime(s, '%Y-%m-%d').date(): the date, or not ok (ValueError) for
\* a string that names no calendar date.  A date string is <<year, month, day>>,
\* the empty string <<>>.
ParseDate(s) ==
    IF /\ s # <<>>
       /\ s[2] \in 1..12
       /\ s[3] \in 1..DaysInMonth(s[1], s[2])
    THEN [ok |-> TRUE, date |-> Ymd2Ord(s[1], s[2], s[3])]
    ELSE [ok |-> FALSE]

\* _isoweek1monday(year): ordinal of the Monday of ISO week 1
IsoWeek1Monday(y) ==
    LET firstday     == Ymd2Ord(y, 1, 1)
        firstweekday == (firstday + 6) % 7
        week1monday  == firstday - firstweekday
    IN IF firstweekday > 3 THEN week1monday + 7 ELSE week1monday

\* date.isocalendar()[:2] of the date with ordinal n, as <<iso_year, iso_week>>
IsoCalendar(n) ==
    LET year == YearOf(n)
        w    == (n - IsoWeek1Monday(year)) \div 7
    IN IF n < IsoWeek1Monday(year)
       THEN <<year - 1, ((n - IsoWeek1Monday(year - 1)) \div 7) + 1>>
       ELSE IF w >= 52 /\ n >= IsoWeek1Monday(year + 1)
            THEN <<year + 1, 1>>
            ELSE <<year, w + 1>>

\* f"{iso_year}-W{iso_week:02d}": the pair determines the text and back.
WeekKey(n) == IsoCalendar(n)

\* datetime.combine(date_obj, current_time)
Combine(date_obj, tick) == date_obj * TicksPerDay + tick

\* func.date(Attendance.scanned_at)
DateOf(scanned_at) == scanned_at \div TicksPerDay

\* ------------------------------------------------------------------ configuration

LL   == "Leadership Laboratory"
PT   == "Physical Training"
AERO == "Aerospace Class"

CLASS_CATEGORIES == <<LL, PT, AERO>>

PREDEFINED_CLASSES ==
    << [code |-> "AERO1020", category |-> AERO],
       [code |-> "AERO2020", category |-> AERO],
       [code |-> "AERO3020", category |-> AERO],
       [code |-> "AERO4020", category |-> AERO] >>

CATEGORY_BASED_CATEGORIES == <<LL, PT>>

\* category.upper().replace(' ', '')
CategoryCode(category) ==
    IF category = LL THEN "LEADERSHIPLABORATORY"
    ELSE IF category = PT THEN "PHYSICALTRAINING"
    ELSE IF category = AERO THEN "AEROSPACECLASS"
    ELSE category

Range(seq) == {seq[i] : i \in DOMAIN seq}

\* ------------------------------------------------------------------ state

VARIABLES
    students,     \* rows of table student: [id, first_name, last_name, as_year]
    classes,      \* rows of table class: [id, code, category, is_active]
    attendance,   \* rows of table attendance: [student_id, class_id, scanned_at]
    inflight      \* add_attendance requests between existence check and insert

vars == <<students, classes, attendance, inflight>>

\* The id SQLite gives the next row of a table: one more than the largest.
NextId(rows) ==
    IF rows = {} THEN 1
    ELSE (CHOOSE m \in {r.id : r \in rows} : \A r \in rows : r.id <= m) + 1

\* Class.query.filter_by(code=code).first()
ClassByCode(cls, code) ==
    IF \E c \in cls : c.code = code
    THEN CHOOSE c \in cls : c.code = code
    ELSE NoRow

\* EnsureClass writing the default category ('Leadership Laboratory') to a
\* class it finds, whether the class has a category or not.
EnsureClassOverwriting(cls, info) ==
    LET existing == ClassByCode(cls, info.code)
    IN IF existing = NoRow
       THEN cls \cup {[id        |-> NextId(cls),
                       code      |-> info.code,
                       category  |-> info.category,
                       is_active |-> TRUE]}
       ELSE (cls \ {existing}) \cup {[existing EXCEPT !.category = LL]}

\* One pass of the first loop of ensure_predefined_classes, over a class of
\* PREDEFINED_CLASSES.
EnsureClass(cls, info) ==
    LET existing == ClassByCode(cls, info.code)
    IN IF existing = NoRow
       THEN cls \cup {[id        |-> NextId(cls),
                       code      |-> info.code,
                       category  |-> info.category,
                       is_active |-> TRUE]}
       ELSE IF existing.category = ""
            THEN (cls \ {existing}) \cup {[existing EXCEPT !.category = info.category]}
            ELSE cls

RECURSIVE EnsureAll(_, _)
EnsureAll(cls, infos) ==
    IF infos = <<>> THEN cls
    ELSE EnsureAll(EnsureClass(cls, Head(infos)), Tail(infos))

\* One pass of the second loop, over a category of CATEGORY_BASED_CATEGORIES:
\* a class found under the category's code is left as it is.
EnsureCategoryClass(cls, category) ==
    LET category_code == CategoryCode(category)
        existing      == ClassByCode(cls, category_code)
    IN IF existing = NoRow
       THEN cls \cup {[id        |-> NextId(cls),
                       code      |-> category_code,
                       category  |-> category,
                       is_active |-> TRUE]}
       ELSE cls

RECURSIVE EnsureCategories(_, _)
EnsureCategories(cls, categories) ==
    IF categories = <<>> THEN cls
    ELSE EnsureCategories(EnsureCategoryClass(cls, Head(categories)), Tail(categories))

\* The class table after ensure_predefined_classes().
EnsurePredefined(cls) ==
    EnsureCategories(EnsureAll(cls, PREDEFINED_CLASSES), CATEGORY_BASED_CATEGORIES)

\* ------------------------------------------------------------------ report

\* The elements of a set of integers in ascending order.
RECURSIVE SortedSeq(_)
SortedSeq(S) ==
    IF S = {} THEN <<>>
    ELSE LET m == CHOOSE x \in S : \A y \in S : x <= y
         IN <<m>> \o SortedSeq(S \ {m})

\* [c.id for c in all_classes if c.category == category], all_classes the active ones
CategoryClassIds(cls, category) ==
    {c.id : c \in {x \in cls : x.is_active /\ x.category = category}}

\* OfferedDates with the filter of the per-student query left in: only the
\* rows of the student with id 1 count as offered.
OfferedDatesOfOneStudent(att, ids) ==
    {DateOf(r.scanned_at) : r \in {x \in att : x.student_id = 1 /\ x.class_id \in ids}}

\* SELECT DISTINCT date(scanned_at) ... WHERE class_id IN ids
OfferedDates(att, ids) == {DateOf(r.scanned_at) : r \in {x \in att : x.class_id \in ids}}

\* StudentDates without func.date: DISTINCT over the timestamps themselves.
StudentTimestamps(att, sid, ids) ==
    {r.scanned_at : r \in {x \in att : x.student_id = sid /\ x.class_id \in ids}}

\* StudentDates without the student_id filter: the dates of anyone's rows.
StudentDatesOfAnyone(att, sid, ids) ==
    {DateOf(r.scanned_at) : r \in {x \in att : x.class_id \in ids}}

\* SELECT DISTINCT date(scanned_at) ... WHERE student_id = sid AND class_id IN ids
StudentDates(att, sid, ids) ==
    {DateOf(r.scanned_at) : r \in {x \in att : x.student_id = sid /\ x.class_id \in ids}}

SessionsOffered(cls, att) ==
    [category \in Range(CLASS_CATEGORIES) |->
        IF CategoryClassIds(cls, category) # {}
        THEN Cardinality(OfferedDates(att, CategoryClassIds(cls, category)))
        ELSE 0]

\* GroupByWeek assigning the date to its week key instead of appending it:
\* a week keeps its last date only.
RECURSIVE GroupByWeekOverwriting(_)
GroupByWeekOverwriting(rows) ==
    IF rows = <<>> THEN <<>>
    ELSE LET prev     == GroupByWeekOverwriting(SubSeq(rows, 1, Len(rows) - 1))
             date_obj == rows[Len(rows)]
             week_key == WeekKey(date_obj)
         IN [k \in (DOMAIN prev) \cup {week_key} |->
                IF k = week_key THEN <<date_obj>> ELSE prev[k]]

\* The loop that files each offered date under its week key.
RECURSIVE GroupByWeek(_)
GroupByWeek(rows) ==
    IF rows = <<>> THEN <<>>
    ELSE LET prev     == GroupByWeek(SubSeq(rows, 1, Len(rows) - 1))
             date_obj == rows[Len(rows)]
             week_key == WeekKey(date_obj)
         IN [k \in (DOMAIN prev) \cup {week_key} |->
                IF k = week_key
                THEN (IF k \in DOMAIN prev THEN prev[k] ELSE <<>>) \o <<date_obj>>
                ELSE prev[k]]

PtWeeksData(cls, att) ==
    IF CategoryClassIds(cls, PT) # {}
    THEN GroupByWeek(SortedSeq(OfferedDates(att, CategoryClassIds(cls, PT))))
    ELSE <<>>

\* PtTotalWeeks counting the offered dates instead of the weeks.
PtTotalDates(cls, att) ==
    IF CategoryClassIds(cls, PT) # {}
    THEN Cardinality(OfferedDates(att, CategoryClassIds(cls, PT)))
    ELSE 0

PtTotalWeeks(cls, att) ==
    IF CategoryClassIds(cls, PT) # {}
    THEN Cardinality(DOMAIN PtWeeksData(cls, att))
    ELSE 0

\* Round1 cutting the second decimal off instead of rounding.
Round1Truncating(num, den) == (num * 1000) \div den

\* round(num / den * 100, 1) in tenths of a percent (a tie goes to the even tenth)
Round1(num, den) ==
    LET q == (num * 1000) \div den
        r == (num * 1000) % den
    IN IF 2 * r < den THEN q
       ELSE IF 2 * r > den THEN q + 1
       ELSE IF q % 2 = 0 THEN q ELSE q + 1

\* (x / total * 100) if total > 0 else 0, then round(percentage, 1)
Percentage(x, total) == IF total > 0 THEN Round1(x, total) ELSE 0

\* AttendedInWeek telling whether the student attended the week at all
\* instead of counting the sessions.
AttendedInWeekAny(week_dates, date_set) ==
    IF \E i \in DOMAIN week_dates : week_dates[i] \in date_set THEN 1 ELSE 0

\* sum(1 for d in week_dates if d in student_pt_date_set)
AttendedInWeek(week_dates, date_set) ==
    Cardinality({i \in DOMAIN week_dates : week_dates[i] \in date_set})

RECURSIVE SumOver(_, _)
SumOver(f, S) ==
    IF S = {} THEN 0
    ELSE LET k == CHOOSE x \in S : TRUE IN f[k] + SumOver(f, S \ {k})

\* PtResult with a week met by one session attended.
PtResultOneSession(cls, att, sid) ==
    LET ids       == CategoryClassIds(cls, PT)
        weeks     == PtWeeksData(cls, att)
        date_set  == StudentDates(att, sid, ids)
        in_week   == [k \in DOMAIN weeks |-> AttendedInWeek(weeks[k], date_set)]
        checked   == ids # {} /\ DOMAIN weeks # {}
        weeks_met == IF checked
                     THEN Cardinality({k \in DOMAIN weeks : in_week[k] >= 1})
                     ELSE 0
        attended_total == IF checked THEN SumOver(in_week, DOMAIN weeks) ELSE 0
    IN [attended   |-> weeks_met,
        total      |-> PtTotalWeeks(cls, att),
        percentage |-> Percentage(weeks_met, PtTotalWeeks(cls, att)),
        total_sessions_attended |-> attended_total,
        total_sessions_offered  |-> SessionsOffered(cls, att)[PT]]

\* The Physical Training branch for one student.
PtResult(cls, att, sid) ==
    LET ids       == CategoryClassIds(cls, PT)
        weeks     == PtWeeksData(cls, att)
        date_set  == StudentDates(att, sid, ids)
        in_week   == [k \in DOMAIN weeks |-> AttendedInWeek(weeks[k], date_set)]
        checked   == ids # {} /\ DOMAIN weeks # {}
        weeks_met == IF checked
                     THEN Cardinality({k \in DOMAIN weeks : in_week[k] >= 2})
                     ELSE 0
        attended_total == IF checked THEN SumOver(in_week, DOMAIN weeks) ELSE 0
    IN [attended   |-> weeks_met,
        total      |-> PtTotalWeeks(cls, att),
        percentage |-> Percentage(weeks_met, PtTotalWeeks(cls, att)),
        total_sessions_attended |-> attended_total,
        total_sessions_offered  |-> SessionsOffered(cls, att)[PT]]

\* EnrolledClassIds taking the student as enrolled in every sub-class of the
\* category.
EnrolledClassIdsAll(cls, att, sid) == CategoryClassIds(cls, AERO)

\* EnrolledClassIds keeping only the sub-class of the student's latest row.
EnrolledClassIdsLatest(cls, att, sid) ==
    LET rows == {x \in att : x.student_id = sid /\ x.class_id \in CategoryClassIds(cls, AERO)}
    IN {r.class_id : r \in {x \in rows : \A y \in rows : y.scanned_at <= x.scanned_at}}

\* enrolled_class_ids: SELECT DISTINCT class_id ... WHERE student_id = sid AND
\* class_id IN category_class_ids
EnrolledClassIds(cls, att, sid) ==
    {r.class_id : r \in {x \in att : x.student_id = sid
                                      /\ x.class_id \in CategoryClassIds(cls, AERO)}}

\* AeroResult with the category's sessions offered as the total.
AeroResultCategoryTotal(cls, att, sid) ==
    LET ids      == CategoryClassIds(cls, AERO)
        enrolled == {r.class_id : r \in {x \in att : x.student_id = sid /\ x.class_id \in ids}}
        per_attended == [c \in enrolled |-> Cardinality(StudentDates(att, sid, {c}))]
        attended_sessions == SumOver(per_attended, enrolled)
        total_offered     == Cardinality(OfferedDates(att, ids))
    IN IF enrolled # {}
       THEN [attended   |-> attended_sessions,
             total      |-> total_offered,
             percentage |-> Percentage(attended_sessions, total_offered),
             enrolled_classes |-> Cardinality(enrolled)]
       ELSE [attended |-> 0, total |-> 0, percentage |-> 0, enrolled_classes |-> 0]

\* AeroResult taking every Aerospace class with a row, of any student, as one
\* the student is enrolled in.
AeroResultAnyStudent(cls, att, sid) ==
    LET ids      == CategoryClassIds(cls, AERO)
        enrolled == {r.class_id : r \in {x \in att : x.class_id \in ids}}
        per_attended == [c \in enrolled |-> Cardinality(StudentDates(att, sid, {c}))]
        per_offered  == [c \in enrolled |-> Cardinality(OfferedDates(att, {c}))]
        attended_sessions == SumOver(per_attended, enrolled)
        total_offered     == SumOver(per_offered, enrolled)
    IN IF enrolled # {}
       THEN [attended   |-> attended_sessions,
             total      |-> total_offered,
             percentage |-> Percentage(attended_sessions, total_offered),
             enrolled_classes |-> Cardinality(enrolled)]
       ELSE [attended |-> 0, total |-> 0, percentage |-> 0, enrolled_classes |-> 0]

\* AeroResult with every sub-class of the category in the total, enrolled in
\* or not.
AeroResultAllSubclasses(cls, att, sid) ==
    LET ids      == CategoryClassIds(cls, AERO)
        enrolled == {r.class_id : r \in {x \in att : x.student_id = sid /\ x.class_id \in ids}}
        per_attended == [c \in enrolled |-> Cardinality(StudentDates(att, sid, {c}))]
        per_offered  == [c \in ids |-> Cardinality(OfferedDates(att, {c}))]
        attended_sessions == SumOver(per_attended, enrolled)
        total_offered     == SumOver(per_offered, ids)
    IN IF enrolled # {}
       THEN [attended   |-> attended_sessions,
             total      |-> total_offered,
             percentage |-> Percentage(attended_sessions, total_offered),
             enrolled_classes |-> Cardinality(enrolled)]
       ELSE [attended |-> 0, total |-> 0, percentage |-> 0, enrolled_classes |-> 0]

\* The Aerospace Class branch for one student.
AeroResult(cls, att, sid) ==
    LET enrolled == EnrolledClassIds(cls, att, sid)
        per_attended == [c \in enrolled |-> Cardinality(StudentDates(att, sid, {c}))]
        per_offered  == [c \in enrolled |-> Cardinality(OfferedDates(att, {c}))]
        attended_sessions == SumOver(per_attended, enrolled)
        total_offered     == SumOver(per_offered, enrolled)
    IN IF enrolled # {}
       THEN [attended   |-> attended_sessions,
             total      |-> total_offered,
             percentage |-> Percentage(attended_sessions, total_offered),
             enrolled_classes |-> Cardinality(enrolled)]
       ELSE [attended |-> 0, total |-> 0, percentage |-> 0, enrolled_classes |-> 0]

\* RatioResult dividing by the 14 sessions scheduled (CATEGORY_SESSION_COUNTS)
\* instead of the sessions offered.
RatioResultScheduled(cls, att, sid, category) ==
    LET ids == CategoryClassIds(cls, category)
        attended_sessions == IF ids # {} THEN Cardinality(StudentDates(att, sid, ids)) ELSE 0
        total_offered     == 14
    IN [attended   |-> attended_sessions,
        total      |-> total_offered,
        percentage |-> Percentage(attended_sessions, total_offered)]

\* The standard branch (Leadership Laboratory) for one student.
RatioResult(cls, att, sid, category) ==
    LET ids == CategoryClassIds(cls, category)
        attended_sessions == IF ids # {} THEN Cardinality(StudentDates(att, sid, ids)) ELSE 0
        total_offered     == SessionsOffered(cls, att)[category]
    IN [attended   |-> attended_sessions,
        total      |-> total_offered,
        percentage |-> Percentage(attended_sessions, total_offered)]

\* student_info['categories'] of one student
CategoryResults(cls, att, sid) ==
    [category \in Range(CLASS_CATEGORIES) |->
        IF category = PT THEN PtResult(cls, att, sid)
        ELSE IF category = AERO THEN AeroResult(cls, att, sid)
        ELSE RatioResult(cls, att, sid, category)]

\* ------------------------------------------------------------------ cohorts

Ungrouped == <<"U", "n", "g", "r", "o", "u", "p", "e", "d">>

\* sort_as_year_key without the numeric part: every year sorts as text.
SortAsYearKeyLexical(year) ==
    IF year = Ungrouped
    THEN [rank |-> 1, kind |-> "str", n |-> 0, s |-> year]
    ELSE [rank |-> 0, kind |-> "str", n |-> 0, s |-> year]

\* sort_as_year_key(year): the tuple (rank, value), value an int or a str
sort_as_year_key(year) ==
    IF year = Ungrouped
    THEN [rank |-> 1, kind |-> "str", n |-> 0, s |-> year]
    ELSE LET numeric_part == FilterDigits(year)
         IN IF numeric_part # <<>>
            THEN [rank |-> 0, kind |-> "int", n |-> ParseInt(numeric_part), s |-> <<>>]
            ELSE [rank |-> 0, kind |-> "str", n |-> 0, s |-> year]

\* a < b on two such tuples: "lt", "ge", or "TypeError" when an int meets a str
KeyLess(a, b) ==
    IF a.rank # b.rank THEN (IF a.rank < b.rank THEN "lt" ELSE "ge")
    ELSE IF a.kind # b.kind THEN "TypeError"
    ELSE IF a.kind = "int" THEN (IF a.n < b.n THEN "lt" ELSE "ge")
    ELSE IF StrLess(a.s, b.s) THEN "lt" ELSE "ge"

YearLess(x, y) == KeyLess(sort_as_year_key(x), sort_as_year_key(y))

\* NameLess with the members' sort key being the first name alone.
NameLessFirstName(x, y) == IF StrLess(x.first_name, y.first_name) THEN "lt" ELSE "ge"

\* (last_name, first_name) of one student against another's
NameLess(x, y) ==
    IF x.last_name # y.last_name
    THEN (IF StrLess(x.last_name, y.last_name) THEN "lt" ELSE "ge")
    ELSE IF StrLess(x.first_name, y.first_name) THEN "lt" ELSE "ge"

\* x < y under the sort key named: sort_as_year_key, or the name pair
Less(key, x, y) == IF key = "sort_as_year_key" THEN YearLess(x, y) ELSE NameLess(x, y)

\* Place x in the sorted list done, after every element it is not less than.
RECURSIVE InsertSorted(_, _, _)
InsertSorted(done, x, key) ==
    IF done = <<>> THEN [ok |-> TRUE, seq |-> <<x>>]
    ELSE LET last == done[Len(done)]
             c    == Less(key, x, last)
         IN IF c = "TypeError" THEN [ok |-> FALSE, seq |-> <<>>]
            ELSE IF c = "ge" THEN [ok |-> TRUE, seq |-> Append(done, x)]
            ELSE LET rest == InsertSorted(SubSeq(done, 1, Len(done) - 1), x, key)
                 IN IF rest.ok
                    THEN [ok |-> TRUE, seq |-> Append(rest.seq, last)]
                    ELSE rest

\* sorted(list, key=...): stable; fails when a comparison does.
RECURSIVE Sorted(_, _)
Sorted(list, key) ==
    IF list = <<>> THEN [ok |-> TRUE, seq |-> <<>>]
    ELSE LET front == Sorted(SubSeq(list, 1, Len(list) - 1), key)
         IN IF front.ok THEN InsertSorted(front.seq, list[Len(list)], key)
            ELSE front

\* The rows of a table by ascending id, as Student.query.all() returns them.
RECURSIVE ById(_)
ById(rows) ==
    IF rows = {} THEN <<>>
    ELSE LET m == CHOOSE r \in rows : \A q \in rows : r.id <= q.id
         IN <<m>> \o ById(rows \ {m})

\* as_year if as_year else 'Ungrouped'
GroupOf(as_year) == IF as_year # NULL THEN as_year ELSE Ungrouped

\* The keys of students_by_as_year in the order the grouping loop inserts them.
RECURSIVE GroupKeys(_)
GroupKeys(list) ==
    IF list = <<>> THEN <<>>
    ELSE LET prev == GroupKeys(SubSeq(list, 1, Len(list) - 1))
             k    == GroupOf(list[Len(list)].as_year)
         IN IF k \in Range(prev) THEN prev ELSE Append(prev, k)

\* students_by_as_year[k]: the members of group k in list order
GroupMembers(list, k) == SelectSeq(list, LAMBDA x : GroupOf(x.as_year) = k)

\* sorted(students_by_as_year.keys(), key=sort_as_year_key)
SortedAsYears(list) == Sorted(GroupKeys(list), "sort_as_year_key")

\* student_data: one student_info per student
StudentData(stu, cls, att) ==
    LET all_students == ById(stu)
    IN [i \in DOMAIN all_students |->
           LET student == all_students[i]
           IN [id         |-> student.id,
               first_name |-> student.first_name,
               last_name  |-> student.last_name,
               as_year    |-> student.as_year,
               categories |-> CategoryResults(cls, att, student.id)]]

\* What analytics_dashboard hands to its template, from the tables as they are
\* after ensure_predefined_classes; status 500 when the cohort sort raises.
AnalyticsDashboard(stu, cls, att) ==
    LET student_data    == StudentData(stu, cls, att)
        sorted_as_years == SortedAsYears(student_data)
    IN IF sorted_as_years.ok
       THEN [status           |-> 200,
             sessions_offered |-> SessionsOffered(cls, att),
             students         |-> student_data,
             as_years         |-> sorted_as_years.seq,
             groups           |-> [k \in Range(sorted_as_years.seq) |->
                                     Sorted(GroupMembers(student_data, k), "name").seq]]
       ELSE [status |-> 500]

\* What student_management hands to its template.
StudentManagement(stu) ==
    LET all_students    == Sorted(ById(stu), "name").seq
        sorted_as_years == SortedAsYears(all_students)
    IN IF sorted_as_years.ok
       THEN [status         |-> 200,
             as_years       |-> sorted_as_years.seq,
             groups         |-> [k \in Range(sorted_as_years.seq) |->
                                   GroupMembers(all_students, k)],
             total_students |-> Len(all_students)]
       ELSE [status |-> 500]

\* ------------------------------------------------------------------ queries

\* Student.query.filter_by(first_name=..., last_name=...).first()
StudentByName(stu, first_name, last_name) ==
    IF \E x \in stu : x.first_name = first_name /\ x.last_name = last_name
    THEN CHOOSE x \in stu : x.first_name = first_name /\ x.last_name = last_name
    ELSE NoRow

\* Student.query.get(id), Class.query.get(id)
RowById(rows, id) ==
    IF \E x \in rows : x.id = id THEN CHOOSE x \in rows : x.id = id ELSE NoRow

\* Class.query.filter_by(code=code, is_active=True).first()
ActiveClassByCode(cls, code) == ClassByCode({c \in cls : c.is_active}, code)

\* AttendanceExists comparing scanned_at with the new row's DateTime instead
\* of its date with the request's date: only a row of the same time of day
\* is found.
AttendanceExistsAtTime(att, sid, cid, date_obj) ==
    \E r \in att : r.student_id = sid /\ r.class_id = cid /\ r.scanned_at = Combine(date_obj, 0)

\* Attendance.query.filter_by(student_id, class_id)
\*     .filter(func.date(Attendance.scanned_at) == date_obj).first() is not None
AttendanceExists(att, sid, cid, date_obj) ==
    \E r \in att : r.student_id = sid /\ r.class_id = cid /\ DateOf(r.scanned_at) = date_obj

InCategoryBased(category) == category \in Range(CATEGORY_BASED_CATEGORIES)

\* ------------------------------------------------------------------ add_attendance

\* add_attendance up to its existence check: the status it returns there
\* (0: none, the request goes on to insert), the student found or created and
\* flushed, the class and the parsed date.
AddLookup(stu, cls, att, first_name, last_name, category, class_id, date) ==
    LET parsed   == ParseDate(date)
        found    == StudentByName(stu, first_name, last_name)
        created  == found = NoRow
        student  == IF created
                    THEN [id |-> NextId(stu), first_name |-> first_name,
                          last_name |-> last_name, as_year |-> NULL]
                    ELSE found
        by_id    == RowById({c \in cls : c.is_active}, class_id)
        class_record == IF InCategoryBased(category)
                        THEN ActiveClassByCode(cls, CategoryCode(category))
                        ELSE by_id
        status ==
            IF first_name = <<>> \/ last_name = <<>> THEN 400
            ELSE IF category = "" THEN 400
            ELSE IF date = <<>> THEN 400
            ELSE IF ~parsed.ok THEN 400
            ELSE IF ~InCategoryBased(category) /\ class_id = 0 THEN 400
            ELSE IF ~InCategoryBased(category)
                    /\ (by_id = NoRow \/ by_id.category # category) THEN 400
            ELSE IF class_record = NoRow THEN 404
            ELSE IF AttendanceExists(att, student.id, class_record.id, parsed.date) THEN 200
            ELSE 0
    IN [status |-> status, created |-> created, student |-> student,
        class_record |-> class_record, parsed |-> parsed]

\* AddAttendance with the flush of a new student being a commit: a request
\* refused after the student lookup leaves the student it created.
AddAttendanceKeepingStudent(W, first_name, last_name, category, class_id, date, tick) ==
    LET L == AddLookup(students, classes, attendance,
                       first_name, last_name, category, class_id, date)
    IN IF L.status # 0
       THEN /\ students' = IF L.parsed.ok /\ L.student.id <= W.max_student_id
                           THEN students \cup {L.student}
                           ELSE students
            /\ UNCHANGED <<classes, attendance, inflight>>
       ELSE /\ Cardinality(attendance) < W.max_records
            /\ L.student.id <= W.max_student_id
            /\ attendance' = attendance \cup
                   {[student_id |-> L.student.id,
                     class_id   |-> L.class_record.id,
                     scanned_at |-> Combine(L.parsed.date, tick)]}
            /\ students' = students \cup {L.student}
            /\ UNCHANGED <<classes, inflight>>

\* The whole of add_attendance served without another request in between.
\* A request answered before the commit leaves nothing behind: the session
\* with the flushed student is discarded when the request ends.
AddAttendance(W, first_name, last_name, category, class_id, date, tick) ==
    LET L == AddLookup(students, classes, attendance,
                       first_name, last_name, category, class_id, date)
    IN IF L.status # 0
       THEN UNCHANGED <<students, classes, attendance, inflight>>
       ELSE /\ Cardinality(attendance) < W.max_records
            /\ L.student.id <= W.max_student_id
            /\ attendance' = attendance \cup
                   {[student_id |-> L.student.id,
                     class_id   |-> L.class_record.id,
                     scanned_at |-> Combine(L.parsed.date, tick)]}
            /\ students' = students \cup {L.student}
            /\ UNCHANGED <<classes, inflight>>

\* add_attendance of a known student up to and including its existence
\* check, another request being served before it inserts.
AddAttendanceCheck(first_name, last_name, category, class_id, date) ==
    LET L == AddLookup(students, classes, attendance,
                       first_name, last_name, category, class_id, date)
    IN /\ L.status = 0
       /\ ~L.created
       /\ Cardinality(inflight) < MaxInflight
       /\ inflight' = inflight \cup
              {[student_id |-> L.student.id,
                class_id   |-> L.class_record.id,
                date_obj   |-> L.parsed.date]}
       /\ UNCHANGED <<students, classes, attendance>>

\* The rest of that request: the insert and the commit.  The table's unique
\* constraint (student_id, class_id, scanned_at) refuses an equal row
\* (IntegrityError, answered 500).
AddAttendanceInsert(W, req, tick) ==
    LET row == [student_id |-> req.student_id,
                class_id   |-> req.class_id,
                scanned_at |-> Combine(req.date_obj, tick)]
    IN /\ req \in inflight
       /\ inflight' = inflight \ {req}
       /\ IF row \in attendance
          THEN UNCHANGED <<students, classes, attendance>>
          ELSE /\ Cardinality(attendance) < W.max_records
               /\ attendance' = attendance \cup {row}
               /\ UNCHANGED <<students, classes>>

\* ------------------------------------------------------------------ bulk_attendance

\* BulkStep with the duplicate check not seeing the rows the loop added (no
\* autoflush): it looks in the rows stored before the request.
BulkStepUnflushed(acc, student, cid, session_date, scanned_datetime) ==
    IF student = NoRow
    THEN [acc EXCEPT !.errors = @ + 1]
    ELSE IF AttendanceExists(attendance, student.id, cid, session_date)
    THEN [acc EXCEPT !.skipped = @ + 1]
    ELSE [acc EXCEPT !.recorded = @ + 1,
                     !.att = @ \cup {[student_id |-> student.id,
                                      class_id   |-> cid,
                                      scanned_at |-> scanned_datetime]}]

\* One pass of the loop over student_ids, on the counts and the rows so far.
BulkStep(acc, student, cid, session_date, scanned_datetime) ==
    IF student = NoRow
    THEN [acc EXCEPT !.errors = @ + 1]
    ELSE IF AttendanceExists(acc.att, student.id, cid, session_date)
    THEN [acc EXCEPT !.skipped = @ + 1]
    ELSE [acc EXCEPT !.recorded = @ + 1,
                     !.att = @ \cup {[student_id |-> student.id,
                                      class_id   |-> cid,
                                      scanned_at |-> scanned_datetime]}]

\* The loop over student_ids; a query in the loop sees the rows added before it.
RECURSIVE BulkLoop(_, _, _, _, _, _)
BulkLoop(student_ids, stu, acc, cid, session_date, scanned_datetime) ==
    IF student_ids = <<>> THEN acc
    ELSE BulkLoop(Tail(student_ids), stu,
                  BulkStep(acc, RowById(stu, Head(student_ids)),
                           cid, session_date, scanned_datetime),
                  cid, session_date, scanned_datetime)

\* bulk_attendance up to its loop: the status it returns there (0: none) and
\* the class.
BulkLookup(cls, class_id, category, date) ==
    LET parsed       == ParseDate(date)
        by_id        == RowById(cls, class_id)
        class_record == IF InCategoryBased(category)
                        THEN ClassByCode({c \in cls : c.is_active /\ c.category = category},
                                         CategoryCode(category))
                        ELSE IF class_id # 0 THEN by_id
                        ELSE NoRow
        status == IF date = <<>> THEN 400
                  ELSE IF ~parsed.ok THEN 400
                  ELSE IF ~InCategoryBased(category) /\ class_id # 0
                          /\ by_id # NoRow /\ by_id.category # category THEN 400
                  ELSE IF class_record = NoRow THEN 404
                  ELSE 0
    IN [status |-> status, class_record |-> class_record, parsed |-> parsed]

BulkAttendance(W, student_ids, class_id, category, date, tick) ==
    LET L    == BulkLookup(classes, class_id, category, date)
        done == BulkLoop(student_ids, students,
                         [att |-> attendance, recorded |-> 0, skipped |-> 0, errors |-> 0],
                         L.class_record.id, L.parsed.date, Combine(L.parsed.date, tick))
    IN IF L.status # 0
       THEN UNCHANGED <<students, classes, attendance, inflight>>
       ELSE /\ Cardinality(done.att) <= W.max_records
            /\ attendance' = done.att
            /\ UNCHANGED <<students, classes, inflight>>

\* ------------------------------------------------------------------ students, deletes

\* AddStudentStatus without the query for a student of the same first and
\* last name.
AddStudentStatusUnchecked(stu, first_name, last_name) ==
    IF first_name = <<>> \/ last_name = <<>> THEN 400
    ELSE 201

\* The status add_student answers with.
AddStudentStatus(stu, first_name, last_name) ==
    IF first_name = <<>> \/ last_name = <<>> THEN 400
    ELSE IF StudentByName(stu, first_name, last_name) # NoRow THEN 400
    ELSE 201

AddStudent(W, first_name, last_name, as_year) ==
    IF AddStudentStatus(students, first_name, last_name) # 201
    THEN UNCHANGED <<students, classes, attendance, inflight>>
    ELSE /\ NextId(students) <= W.max_student_id
         /\ students' = students \cup
                {[id |-> NextId(students), first_name |-> first_name,
                  last_name |-> last_name, as_year |-> as_year]}
         /\ UNCHANGED <<classes, attendance, inflight>>

\* DeleteStudent without the delete of the student's attendance rows.
DeleteStudentOnly(student_id) ==
    LET student == RowById(students, student_id)
    IN IF student = NoRow
       THEN UNCHANGED <<students, classes, attendance, inflight>>
       ELSE /\ students' = students \ {student}
            /\ UNCHANGED <<classes, attendance, inflight>>

\* An unknown id is answered 404.
DeleteStudent(student_id) ==
    LET student == RowById(students, student_id)
    IN IF student = NoRow
       THEN UNCHANGED <<students, classes, attendance, inflight>>
       ELSE /\ attendance' = {r \in attendance : r.student_id # student_id}
            /\ students' = students \ {student}
            /\ UNCHANGED <<classes, inflight>>

\* An attendance row is its own key here: the request names the row by its
\* id, or names an id no row has (NoRow).  For that one get_or_404 raises
\* inside the try, and the handler answers the exception with 500.
DeleteAttendance(row) ==
    IF row \notin attendance
    THEN UNCHANGED <<students, classes, attendance, inflight>>
    ELSE /\ attendance' = attendance \ {row}
         /\ UNCHANGED <<students, classes, inflight>>

\* DeleteClass without the delete of the class's attendance rows.
DeleteClassOnly(class_id) ==
    LET class_record == RowById(classes, class_id)
    IN IF class_record = NoRow
       THEN UNCHANGED <<students, classes, attendance, inflight>>
       ELSE /\ classes' = classes \ {class_record}
            /\ UNCHANGED <<students, attendance, inflight>>

\* An unknown id is answered 500: get_or_404 raises inside the try.
DeleteClass(class_id) ==
    LET class_record == RowById(classes, class_id)
    IN IF class_record = NoRow
       THEN UNCHANGED <<students, classes, attendance, inflight>>
       ELSE /\ attendance' = {r \in attendance : r.class_id # class_id}
            /\ classes' = classes \ {class_record}
            /\ UNCHANGED <<students, inflight>>

\* ------------------------------------------------------------------ views

\* The report a request to /analytics_dashboard gets in this state.
Report == AnalyticsDashboard(students, EnsurePredefined(classes), attendance)

\* The page a request to /student_management gets in this state.
Management == StudentManagement(students)

\* Dashboard computing the report from the class table as the request finds
\* it, ensure_predefined_classes running afterwards.
DashboardReportFirst(stu, cls, att) ==
    [report  |-> AnalyticsDashboard(stu, cls, att),
     classes |-> EnsurePredefined(cls)]

\* A request to /analytics_dashboard as a function of the tables it finds:
\* the report it answers and the class table it leaves.
Dashboard(stu, cls, att) ==
    [report  |-> AnalyticsDashboard(stu, EnsurePredefined(cls), att),
     classes |-> EnsurePredefined(cls)]

\* ensure_predefined_classes commits before the report is computed.
analytics_dashboard ==
    /\ NextId(EnsurePredefined(classes)) <= MaxClassId + 1
    /\ classes' = EnsurePredefined(classes)
    /\ UNCHANGED <<students, attendance, inflight>>

student_management == UNCHANGED <<students, classes, attendance, inflight>>

\* ------------------------------------------------------------------ requests

Ann == <<"A", "n", "n">>
Bob == <<"B", "o", "b">>
Cy  == <<"C", "y">>
Dee == <<"D", "e", "e">>
Lee == <<"L", "e", "e">>
Kim == <<"K", "i", "m">>

AnnLee == [first_name |-> Ann, last_name |-> Lee]
BobKim == [first_name |-> Bob, last_name |-> Kim]
CyLee  == [first_name |-> Cy,  last_name |-> Lee]
DeeKim == [first_name |-> Dee, last_name |-> Kim]

\* Wednesday to Friday of 2026-W03, Thursday and Friday of 2026-W04, Thursday
\* of 2026-W05, and a day no month has
Jan14 == <<2026, 1, 14>>
Jan15 == <<2026, 1, 15>>
Jan16 == <<2026, 1, 16>>
Jan22 == <<2026, 1, 22>>
Jan23 == <<2026, 1, 23>>
Jan29 == <<2026, 1, 29>>
Feb30 == <<2026, 2, 30>>

\* as_year values: numeric years, one with a prefix, two without a digit
Y50    == <<"5", "0">>
Y100   == <<"1", "0", "0">>
Y200   == <<"2", "0", "0">>
AS100  == <<"A", "S", "1", "0", "0">>
Alpha  == <<"A", "l", "p", "h", "a">>
Bravo  == <<"B", "r", "a", "v", "o">>

\* Lists of at most MaxBulk student ids
BulkLists(ids) == UNION {[1..n -> ids] : n \in 0..MaxBulk}

\* A workload names the requests clients send: the names, the (category,
\* class_id) pairs, the dates and the times of day of attendance requests, the
\* ids of bulk and delete requests, the as_year of new students, the names
\* whose add_attendance requests are served while another request is (racers),
\* and the bounds on the tables.

\* A deployment in daily use: every category, the first two Aerospace
\* classes, requests served one after the other.
Daily ==
    [names          |-> {AnnLee, BobKim},
     racers         |-> {},
     targets        |-> {<<LL, 0>>, <<PT, 0>>, <<AERO, 0>>, <<AERO, 1>>, <<AERO, 2>>},
     dates          |-> {Jan15, Jan16, Feb30},
     ticks          |-> {0},
     student_ids    |-> 1..(MaxStudentId + 1),
     del_classes    |-> {1, MaxClassId + 1},
     as_years       |-> {NULL},
     max_records    |-> MaxRecords,
     max_student_id |-> MaxStudentId]

\* Leadership Laboratory on three Thursdays, requests served concurrently.
Lab ==
    [names          |-> {AnnLee, BobKim},
     racers         |-> {AnnLee},
     targets        |-> {<<LL, 0>>},
     dates          |-> {Jan15, Jan22, Jan29},
     ticks          |-> 0..(TicksPerDay - 1),
     student_ids    |-> 1..MaxStudentId,
     del_classes    |-> {5},
     as_years       |-> {NULL},
     max_records    |-> MaxRecords,
     max_student_id |-> MaxStudentId]

\* Physical Training over two weeks, three sessions in the first and two in
\* the second.
Training ==
    [names          |-> {AnnLee, BobKim},
     racers         |-> {},
     targets        |-> {<<PT, 0>>},
     dates          |-> {Jan14, Jan15, Jan16, Jan22, Jan23},
     ticks          |-> {0},
     student_ids    |-> 1..MaxStudentId,
     del_classes    |-> {6},
     as_years       |-> {NULL},
     max_records    |-> MaxPtRecords,
     max_student_id |-> MaxStudentId]

\* Two Aerospace sub-classes meeting on four dates.
Aerospace ==
    [names          |-> {AnnLee, BobKim},
     racers         |-> {},
     targets        |-> {<<AERO, 1>>, <<AERO, 2>>},
     dates          |-> {Jan15, Jan16, Jan22, Jan23},
     ticks          |-> {0},
     student_ids    |-> 1..MaxStudentId,
     del_classes    |-> {},
     as_years       |-> {NULL},
     max_records    |-> MaxAeroRecords,
     max_student_id |-> MaxStudentId]

\* One student signing in to Physical Training while classes and students
\* are deleted and the dashboard is opened, requests served concurrently.
Turnover ==
    [names          |-> {AnnLee},
     racers         |-> {AnnLee},
     targets        |-> {<<PT, 0>>},
     dates          |-> {Jan15, Jan16},
     ticks          |-> 0..(TicksPerDay - 1),
     student_ids    |-> 1..MaxStudentId,
     del_classes    |-> {5, 6},
     as_years       |-> {NULL},
     max_records    |-> MaxRecords,
     max_student_id |-> MaxStudentId]

\* The roster being edited: students of several cohorts added and removed.
Roster ==
    [names          |-> {AnnLee, BobKim, CyLee, DeeKim},
     racers         |-> {},
     targets        |-> {},
     dates          |-> {},
     ticks          |-> {0},
     student_ids    |-> 1..MaxCohortStudentId,
     del_classes    |-> {},
     as_years       |-> {NULL, Y50, Y100, Y200, AS100, Alpha, Bravo},
     max_records    |-> 0,
     max_student_id |-> MaxCohortStudentId]

add_attendance(W) ==
    \E nm \in W.names, target \in W.targets, date \in W.dates, tick \in W.ticks :
        AddAttendance(W, nm.first_name, nm.last_name, target[1], target[2], date, tick)

add_attendance_check(W) ==
    \E nm \in W.racers, target \in W.targets, date \in W.dates :
        AddAttendanceCheck(nm.first_name, nm.last_name, target[1], target[2], date)

add_attendance_insert(W) ==
    \E req \in inflight, tick \in W.ticks : AddAttendanceInsert(W, req, tick)

bulk_attendance(W) ==
    \E student_ids \in BulkLists(W.student_ids), target \in W.targets,
       date \in W.dates, tick \in W.ticks :
        BulkAttendance(W, student_ids, target[2], target[1], date, tick)

add_student(W) ==
    \E nm \in W.names, as_year \in W.as_years :
        AddStudent(W, nm.first_name, nm.last_name, as_year)

delete_student(W) == \E student_id \in W.student_ids : DeleteStudent(student_id)

delete_attendance == \E row \in attendance \cup {NoRow} : DeleteAttendance(row)

delete_class(W) == \E class_id \in W.del_classes : DeleteClass(class_id)

\* ------------------------------------------------------------------ specifications

\* A new database: migrate_database creates the empty tables.
Init ==
    /\ students = {}
    /\ classes = {}
    /\ attendance = {}
    /\ inflight = {}

Next ==
    \/ add_attendance(Daily)
    \/ bulk_attendance(Daily)
    \/ add_student(Daily)
    \/ delete_student(Daily)
    \/ delete_attendance
    \/ delete_class(Daily)
    \/ analytics_dashboard
    \/ student_management

Spec == Init /\ [][Next]_vars

NextLab ==
    \/ add_attendance(Lab)
    \/ add_attendance_check(Lab)
    \/ add_attendance_insert(Lab)
    \/ bulk_attendance(Lab)
    \/ delete_student(Lab)
    \/ delete_attendance
    \/ delete_class(Lab)
    \/ analytics_dashboard

SpecLab == Init /\ [][NextLab]_vars

\* The Leadership Laboratory requests served one after the other.
NextLabInTurn ==
    \/ add_attendance(Lab)
    \/ bulk_attendance(Lab)
    \/ delete_student(Lab)
    \/ delete_attendance
    \/ analytics_dashboard

SpecLabInTurn == Init /\ [][NextLabInTurn]_vars

NextTraining ==
    \/ add_attendance(Training)
    \/ bulk_attendance(Training)
    \/ delete_student(Training)
    \/ delete_attendance
    \/ delete_class(Training)
    \/ analytics_dashboard

SpecTraining == Init /\ [][NextTraining]_vars

NextAerospace ==
    \/ add_attendance(Aerospace)
    \/ bulk_attendance(Aerospace)
    \/ delete_attendance
    \/ analytics_dashboard

SpecAerospace == Init /\ [][NextAerospace]_vars

NextTurnover ==
    \/ add_attendance(Turnover)
    \/ add_attendance_check(Turnover)
    \/ add_attendance_insert(Turnover)
    \/ delete_student(Turnover)
    \/ delete_class(Turnover)
    \/ analytics_dashboard

SpecTurnover == Init /\ [][NextTurnover]_vars

NextRoster ==
    \/ add_student(Roster)
    \/ delete_student(Roster)
    \/ analytics_dashboard
    \/ student_management

SpecRoster == Init /\ [][NextRoster]_vars

\* ------------------------------------------------------------------ properties

\* The class table a report is computed from.
Ensured == EnsurePredefined(classes)

\* The ids of the active classes of a category, the dates with a row in them
\* and the dates with a row of one student in them, read off the tables.
ActiveIds(category) ==
    {c.id : c \in {x \in Ensured : x.is_active = TRUE /\ x.category = category}}

DatesWithRow(ids) ==
    {d \in {r.scanned_at \div TicksPerDay : r \in attendance} :
        \E r \in attendance : r.class_id \in ids /\ r.scanned_at \div TicksPerDay = d}

DatesOfStudent(sid, ids) ==
    {d \in {r.scanned_at \div TicksPerDay : r \in attendance} :
        \E r \in attendance : /\ r.student_id = sid
                              /\ r.class_id \in ids
                              /\ r.scanned_at \div TicksPerDay = d}

\* p is x / total * 100 to the nearest tenth (in tenths), 0 for no total.
IsPercentage(p, x, total) ==
    IF total = 0 THEN p = 0
    ELSE /\ 2 * (p * total - x * 1000) <= total
         /\ 2 * (x * 1000 - p * total) <= total

\* C1: in every reachable state, for every student the Leadership Laboratory
\* result of the report has attended <= total, total being the category's
\* sessions-offered count.
C1_RatioAttendedAtMostTotal ==
    Report.status = 200 =>
        \A i \in DOMAIN Report.students :
            LET r == Report.students[i].categories[LL]
            IN /\ r.attended <= r.total
               /\ r.total = Report.sessions_offered[LL]

\* C1 witness: a student holds two rows of one date (two requests that both
\* passed the existence check) and is reported 1 of 1.
C1_Witness ==
    /\ Report.status = 200
    /\ \E i \in DOMAIN Report.students :
          /\ Report.students[i].categories[LL] = [attended |-> 1, total |-> 1, percentage |-> 1000]
          /\ Cardinality({r \in attendance : /\ r.student_id = Report.students[i].id
                                            /\ r.class_id \in ActiveIds(LL)}) = 2

\* C2 as stated: for every student and each of the three categories, attended
\* never exceeds sessions_offered[category].
C2_AttendedAtMostSessionsOffered ==
    Report.status = 200 =>
        \A i \in DOMAIN Report.students : \A category \in Range(CLASS_CATEGORIES) :
            Report.students[i].categories[category].attended
                <= Report.sessions_offered[category]

\* C2 amended: attended never exceeds sessions_offered[category] for Leadership
\* Laboratory and Physical Training; for Aerospace Class attended never exceeds
\* the total reported with it (the offered dates of each enrolled sub-class,
\* summed), not the category's sessions_offered.
C2_AttendedAtMostOffered ==
    Report.status = 200 =>
        \A i \in DOMAIN Report.students :
            LET c == Report.students[i].categories
            IN /\ c[LL].attended <= Report.sessions_offered[LL]
               /\ c[PT].attended <= Report.sessions_offered[PT]
               /\ c[AERO].attended <= c[AERO].total

\* C2 witness: a student attended two Aerospace sub-classes on the one date
\* Aerospace has a row on, and also a Leadership Laboratory session.
C2_Witness ==
    /\ Report.status = 200
    /\ \E i \in DOMAIN Report.students :
          LET c == Report.students[i].categories
          IN /\ c[AERO].attended = 2
             /\ c[AERO].total = 2
             /\ Report.sessions_offered[AERO] = 1
             /\ c[LL].attended = 1

\* C3: for a category whose sessions-offered count is zero the report is
\* computed and gives every student total = 0 and percentage = 0 there.
C3_ZeroOfferedZeroResult ==
    /\ Report.status = 200
    /\ \A category \in Range(CLASS_CATEGORIES) :
          Report.sessions_offered[category] = 0 =>
              \A i \in DOMAIN Report.students :
                  /\ Report.students[i].categories[category].total = 0
                  /\ Report.students[i].categories[category].percentage = 0

\* C3 witness: two students, a category with sessions offered and each other
\* category with none.
C3_Witness ==
    /\ Report.status = 200
    /\ Len(Report.students) = 2
    /\ Report.sessions_offered[PT] > 0
    /\ Report.sessions_offered[LL] = 0
    /\ Report.sessions_offered[AERO] = 0

\* C4: a student's Leadership Laboratory attended is the number of distinct
\* calendar dates with a row of the student in an active class of the
\* category, however many rows the date has.
C4_RatioCountsDistinctDates ==
    Report.status = 200 =>
        \A i \in DOMAIN Report.students :
            Report.students[i].categories[LL].attended
                = Cardinality(DatesOfStudent(Report.students[i].id, ActiveIds(LL)))

\* C4 witness: a student with three rows, two of them at different times of
\* one date, is reported 2 attended.
C4_Witness ==
    /\ Report.status = 200
    /\ \E i \in DOMAIN Report.students :
          /\ Report.students[i].categories[LL].attended = 2
          /\ Cardinality({r \in attendance : /\ r.student_id = Report.students[i].id
                                            /\ r.class_id \in ActiveIds(LL)}) = 3

\* C5: for every student and every week bucket of Physical Training, the
\* dates of the bucket the student attended are no more than the bucket's
\* dates, and the weeks the student is reported to have met are no more than
\* the buckets of two dates or more.
C5_WeekNeedsTwoOffered ==
    Report.status = 200 =>
        LET weeks == PtWeeksData(Ensured, attendance)
        IN \A i \in DOMAIN Report.students :
              LET mine == DatesOfStudent(Report.students[i].id, ActiveIds(PT))
              IN /\ \A k \in DOMAIN weeks :
                        Cardinality({d \in mine : d \in Range(weeks[k])}) <= Len(weeks[k])
                 /\ Report.students[i].categories[PT].attended
                        <= Cardinality({k \in DOMAIN weeks : Len(weeks[k]) >= 2})

\* C5 witness: a student attended the only date of one week and both dates
\* of another, and is reported 1 week met of 2.
C5_Witness ==
    /\ Report.status = 200
    /\ LET weeks == PtWeeksData(Ensured, attendance)
       IN /\ \E k \in DOMAIN weeks : Len(weeks[k]) = 1
          /\ \E k \in DOMAIN weeks : Len(weeks[k]) = 2
          /\ \E i \in DOMAIN Report.students :
                /\ Report.students[i].categories[PT].attended = 1
                /\ Report.students[i].categories[PT].total = 2
                /\ Report.students[i].categories[PT].total_sessions_attended = 3

\* C6: a student with no row in any active Aerospace sub-class is reported
\* attended 0, total 0, percentage 0 and enrolled_classes 0, whatever rows
\* other students have there.
C6_UnenrolledIsZero ==
    /\ Report.status = 200
    /\ \A i \in DOMAIN Report.students :
          DatesOfStudent(Report.students[i].id, ActiveIds(AERO)) = {} =>
              Report.students[i].categories[AERO]
                  = [attended |-> 0, total |-> 0, percentage |-> 0, enrolled_classes |-> 0]

\* C6 witness: Aerospace has sessions offered by another student's rows, and
\* a student without a row there is reported all zero.
C6_Witness ==
    /\ Report.status = 200
    /\ Report.sessions_offered[AERO] > 0
    /\ \E i \in DOMAIN Report.students :
          /\ DatesOfStudent(Report.students[i].id, ActiveIds(AERO)) = {}
          /\ Report.students[i].categories[AERO].total = 0

\* as_year keys with a digit are in ascending order of the integer their
\* digits spell, and Ungrouped comes after every other key.
CohortOrder(as_years) ==
    \A i, j \in DOMAIN as_years :
        i < j =>
            /\ as_years[i] # Ungrouped
            /\ (\E m \in DOMAIN as_years[i] : IsDigit(as_years[i][m]))
               /\ (\E m \in DOMAIN as_years[j] : IsDigit(as_years[j][m]))
               => ParseInt(FilterDigits(as_years[i])) <= ParseInt(FilterDigits(as_years[j]))

\* The keys "200", "Ungrouped", "100", "50" come out as "50", "100", "200", "Ungrouped".
CohortExample(as_years) ==
    Range(as_years) = {Y200, Ungrouped, Y100, Y50}
        => as_years = <<Y50, Y100, Y200, Ungrouped>>

\* C7: the cohort groups analytics_dashboard and student_management hand to
\* their templates are ordered by the integer value of the digits of their
\* keys, with Ungrouped last; the keys 200, Ungrouped, 100, 50 come out as
\* 50, 100, 200, Ungrouped.
C7_CohortsInNumericOrder ==
    LET report == Report
        page   == Management
    IN /\ report.status = 200 =>
             CohortOrder(report.as_years) /\ CohortExample(report.as_years)
       /\ page.status = 200 =>
             CohortOrder(page.as_years) /\ CohortExample(page.as_years)

\* C7 witness: the students in id order have the cohorts 200, none, 100 and
\* 50, and both views order the groups 50, 100, 200, Ungrouped.
C7_Witness ==
    /\ GroupKeys(ById(students)) = <<Y200, Ungrouped, Y100, Y50>>
    /\ Report.status = 200
    /\ Report.as_years = <<Y50, Y100, Y200, Ungrouped>>
    /\ Management.status = 200
    /\ Management.as_years = <<Y50, Y100, Y200, Ungrouped>>

\* C8: for any set of cohort keys, also one with keys that have digits and
\* keys that have none, the cohort sort completes: both views are answered.
C8_CohortSortCompletes ==
    /\ Report.status = 200
    /\ Management.status = 200

\* C9: the Leadership Laboratory result of every student is attended = the
\* distinct dates the student has a row on, total = the distinct dates any
\* row of the category is on, percentage = attended / total * 100 to one
\* decimal (0 for total 0); offered 2026-01-15, -22 and -29 with 2026-01-15
\* and -22 attended give 2, 3 and 66.7.
C9_RatioResult ==
    Report.status = 200 =>
        \A i \in DOMAIN Report.students :
            LET r       == Report.students[i].categories[LL]
                mine    == DatesOfStudent(Report.students[i].id, ActiveIds(LL))
                offered == DatesWithRow(ActiveIds(LL))
            IN /\ r.attended = Cardinality(mine)
               /\ r.total = Cardinality(offered)
               /\ IsPercentage(r.percentage, r.attended, r.total)
               /\ (/\ offered = {Ymd2Ord(2026, 1, 15), Ymd2Ord(2026, 1, 22), Ymd2Ord(2026, 1, 29)}
                   /\ mine = {Ymd2Ord(2026, 1, 15), Ymd2Ord(2026, 1, 22)})
                  => r = [attended |-> 2, total |-> 3, percentage |-> 667]

\* C9 witness: the three dates are offered, a student attended the first two
\* and is reported 2 of 3, 66.7.
C9_Witness ==
    /\ Report.status = 200
    /\ DatesWithRow(ActiveIds(LL)) = {739631, 739638, 739645}
    /\ \E i \in DOMAIN Report.students :
          /\ DatesOfStudent(Report.students[i].id, ActiveIds(LL)) = {739631, 739638}
          /\ Report.students[i].categories[LL]
                 = [attended |-> 2, total |-> 3, percentage |-> 667]

\* The week of a date, counted in whole weeks from a Monday (ordinal 1 is a
\* Monday).
MondayWeek(d) == (d - 1) \div 7

\* C10: the Physical Training result of every student is total = the ISO weeks
\* with an offered date, attended = those weeks in which the student attended
\* two or more of the offered dates, percentage = attended / total * 100 to
\* one decimal; a week of three and a week of two offered dates with two and
\* one attended give 1, 2 and 50.0.
C10_WeeklyQuotaResult ==
    Report.status = 200 =>
        \A i \in DOMAIN Report.students :
            LET r       == Report.students[i].categories[PT]
                mine    == DatesOfStudent(Report.students[i].id, ActiveIds(PT))
                offered == DatesWithRow(ActiveIds(PT))
                weeks   == {MondayWeek(d) : d \in offered}
                met     == {w \in weeks : Cardinality({d \in mine : MondayWeek(d) = w}) >= 2}
            IN /\ r.total = Cardinality(weeks)
               /\ r.attended = Cardinality(met)
               /\ IsPercentage(r.percentage, r.attended, r.total)
               /\ (/\ Cardinality(weeks) = 2
                   /\ \E a, b \in weeks :
                         /\ Cardinality({d \in offered : MondayWeek(d) = a}) = 3
                         /\ Cardinality({d \in offered : MondayWeek(d) = b}) = 2
                         /\ Cardinality({d \in mine : MondayWeek(d) = a}) = 2
                         /\ Cardinality({d \in mine : MondayWeek(d) = b}) = 1)
                  => /\ r.attended = 1
                     /\ r.total = 2
                     /\ r.percentage = 500

\* C10 witness: 2026-01-14, -15, -16 and 2026-01-22, -23 are offered, a student
\* attended two dates of the first week and one of the second and is reported
\* 1 week of 2, 50.0.
C10_Witness ==
    /\ Report.status = 200
    /\ DatesWithRow(ActiveIds(PT)) = {739630, 739631, 739632, 739638, 739639}
    /\ \E i \in DOMAIN Report.students :
          LET mine == DatesOfStudent(Report.students[i].id, ActiveIds(PT))
          IN /\ Cardinality(mine \cap {739630, 739631, 739632}) = 2
             /\ Cardinality(mine \cap {739638, 739639}) = 1
             /\ Report.students[i].categories[PT].attended = 1
             /\ Report.students[i].categories[PT].total = 2
             /\ Report.students[i].categories[PT].percentage = 500
             /\ Report.students[i].categories[PT].total_sessions_attended = 3

\* ------------------------------------------------------------------ C11

\* The Aerospace sub-classes in which student sid has a row.
EnrolledIn(sid) == {c \in ActiveIds(AERO) : DatesOfStudent(sid, {c}) # {}}

\* The (sub-class, date) pairs student sid attended, and the pairs offered, in
\* the sub-classes the student is enrolled in.
AttendedPairs(sid) ==
    {p \in EnrolledIn(sid) \X DatesWithRow(ActiveIds(AERO)) :
        p[2] \in DatesOfStudent(sid, {p[1]})}

OfferedPairs(sid) ==
    {p \in EnrolledIn(sid) \X DatesWithRow(ActiveIds(AERO)) :
        p[2] \in DatesWithRow({p[1]})}

\* C11: in the Aerospace Class result of every student, attended is the sum
\* over the sub-classes the student has a row in of the distinct dates the
\* student attended that sub-class, total the sum over the same sub-classes
\* of the distinct dates any row of the sub-class has, and percentage the
\* ratio rounded to one decimal; a sub-class without a row of the student
\* adds to neither.
C11_EnrollmentRatioResult ==
    LET report == Report
    IN report.status = 200 =>
        \A i \in DOMAIN report.students :
            LET sid == report.students[i].id
                res == report.students[i].categories[AERO]
            IN /\ res.attended = Cardinality(AttendedPairs(sid))
               /\ res.total = Cardinality(OfferedPairs(sid))
               /\ IsPercentage(res.percentage, res.attended, res.total)

\* The example: AERO1020 offered on 2 dates, AERO2020 on 4, Ann Lee with one
\* row, in AERO1020; her result is 1 of 2, 50.0.
C11_Witness ==
    /\ Ensured = classes
    /\ Cardinality(DatesWithRow({1})) = 2
    /\ Cardinality(DatesWithRow({2})) = 4
    /\ \E ann \in students :
        /\ ann.first_name = Ann
        /\ {r.class_id : r \in {x \in attendance : x.student_id = ann.id}} = {1}
        /\ Cardinality({r \in attendance : r.student_id = ann.id}) = 1
        /\ CategoryResults(classes, attendance, ann.id)[AERO] =
               [attended |-> 1, total |-> 2, percentage |-> 500, enrolled_classes |-> 1]

\* ------------------------------------------------------------------ C12

\* C12: the report of a request to /analytics_dashboard and the report of a
\* second request that follows it with no write in between (it finds the
\* class table the first one left, the same students and attendance rows) are
\* equal: the same per-student results, sessions_offered and cohort order.
C12_ReportIsIdempotent ==
    LET first  == Dashboard(students, classes, attendance)
        second == Dashboard(students, first.classes, attendance)
    IN second.report = first.report

\* The first request writes: it re-creates a deleted class under the id an
\* attendance row still carries, and the report counts that row.
C12_Witness ==
    /\ Ensured # classes
    /\ \E r \in attendance :
          /\ r.class_id \notin {c.id : c \in classes}
          /\ r.class_id \in ActiveIds(PT)
    /\ Dashboard(students, classes, attendance).report.status = 200
    /\ Dashboard(students, classes, attendance).report.sessions_offered[PT] > 0

\* ------------------------------------------------------------------ C13

\* The codes ensure_predefined_classes looks for.
EnsuredCodes ==
    {PREDEFINED_CLASSES[i].code : i \in DOMAIN PREDEFINED_CLASSES}
        \cup {CategoryCode(CATEGORY_BASED_CATEGORIES[i]) : i \in DOMAIN CATEGORY_BASED_CATEGORIES}

\* C13 as stated: a request to /analytics_dashboard leaves the students, the
\* classes and the attendance records as they were.
C13_DashboardLeavesStoreUnchanged ==
    [][analytics_dashboard => UNCHANGED <<students, classes, attendance>>]_vars

\* C13 amended: a request to /analytics_dashboard leaves the students and the
\* attendance records as they were and neither deletes nor changes a class
\* that has a category; it inserts one active class, under a new id, for each
\* code of PREDEFINED_CLASSES and CATEGORY_BASED_CATEGORIES no class carries,
\* and nothing else.
C13_DashboardOnlyAddsMissingClasses ==
    [][analytics_dashboard =>
          /\ students' = students
          /\ attendance' = attendance
          /\ {c \in classes : c.category # ""} \subseteq classes'
          /\ {c.code : c \in classes' \ classes}
                = EnsuredCodes \ {c.code : c \in classes}
          /\ \A c \in classes' \ classes :
                /\ c.is_active
                /\ c.id \notin {x.id : x \in classes}
                /\ \A x \in classes' : x.code = c.code => x = c]_vars

\* A deleted class has been inserted again: AERO1020, first created under id
\* 1, is there under a later id, next to the attendance rows of a student.
C13_Witness ==
    /\ \E c \in classes : c.code = "AERO1020" /\ c.id > 6
    /\ Ensured = classes
    /\ attendance # {}
    /\ students # {}

\* ------------------------------------------------------------------ C14

\* The rows of one student in one class on one date.
RowsOn(att, sid, cid, d) ==
    {r \in att : r.student_id = sid /\ r.class_id = cid /\ r.scanned_at \div TicksPerDay = d}

\* The (student, class, date) triples of a set of rows.
Triples(att) == {<<r.student_id, r.class_id, r.scanned_at \div TicksPerDay>> : r \in att}

\* No two rows of one student, class and date.
OneRowPerDate(att) ==
    \A t \in Triples(att) : Cardinality(RowsOn(att, t[1], t[2], t[3])) = 1

\* What the requests answer for what is recorded: add_attendance for a
\* recorded (student, class, date) answers 200 (already_recorded); a
\* bulk_attendance naming a student twice records at most one row for the
\* student and counts the second mention as skipped.
DuplicatesAreReported ==
    /\ \A nm \in Lab.names, target \in Lab.targets, date \in Lab.dates :
          LET L == AddLookup(students, classes, attendance,
                             nm.first_name, nm.last_name, target[1], target[2], date)
          IN (\E x \in students, c \in classes :
                  /\ x.first_name = nm.first_name /\ x.last_name = nm.last_name
                  /\ c.code = CategoryCode(target[1])
                  /\ RowsOn(attendance, x.id, c.id, ParseDate(date).date) # {})
             => L.status = 200
    /\ \A x \in students, target \in Lab.targets, date \in Lab.dates :
          LET L == BulkLookup(classes, target[2], target[1], date)
          IN L.status = 0 =>
               LET done == BulkLoop(<<x.id, x.id>>, students,
                                    [att |-> attendance, recorded |-> 0,
                                     skipped |-> 0, errors |-> 0],
                                    L.class_record.id, L.parsed.date,
                                    Combine(L.parsed.date, TicksPerDay - 1))
               IN /\ done.skipped >= 1
                  /\ done.recorded + done.skipped = 2
                  /\ Cardinality(RowsOn(done.att, x.id, L.class_record.id, L.parsed.date)) = 1

\* C14: with add_attendance and bulk_attendance requests served one after the
\* other (bulk lists that repeat an id and requests repeated for a date among
\* them), the store never holds two attendance records of one (student,
\* class, calendar date); no step adds a record to a (student, class, date)
\* that has one, and such a request is answered already_recorded / skipped.
C14_NoDuplicateDate ==
    /\ [](OneRowPerDate(attendance) /\ DuplicatesAreReported)
    /\ [][\A t \in Triples(attendance) :
              RowsOn(attendance', t[1], t[2], t[3]) \subseteq RowsOn(attendance, t[1], t[2], t[3])]_vars

\* Both students are recorded for Leadership Laboratory on 2026-01-15 and one
\* of them also on 2026-01-22: requests for a date already recorded have
\* been made and the store is at its bound.
C14_Witness ==
    /\ Cardinality(attendance) = MaxRecords
    /\ Cardinality(Triples(attendance)) = MaxRecords
    /\ Cardinality({t \in Triples(attendance) : t[3] = ParseDate(Jan15).date}) = 2
    /\ \E r \in attendance : r.scanned_at % TicksPerDay # 0

\* ------------------------------------------------------------------ C15

\* C15: with add_attendance requests served concurrently (a request may pass
\* its existence check while another one has not yet inserted), at most one
\* attendance record of a (student, class, calendar date) exists.
C15_ConcurrentRequestsInsertOnce ==
    \A sid \in {x.id : x \in students}, cid \in {c.id : c \in classes},
       d \in {r.scanned_at \div TicksPerDay : r \in attendance} :
        Cardinality({r \in attendance : /\ r.student_id = sid
                                         /\ r.class_id = cid
                                         /\ r.scanned_at \div TicksPerDay = d}) <= 1

\* ------------------------------------------------------------------ C16

\* Every attendance row belongs to a stored student and a stored class.
NoRowLeftBehind ==
    \A r \in attendance :
        /\ r.student_id \in {x.id : x \in students}
        /\ r.class_id \in {c.id : c \in classes}

\* A step that deletes a student with all of the student's rows and nothing
\* else, or deletes nothing.
StudentAllOrNothing ==
    \/ UNCHANGED <<students, classes, attendance>>
    \/ \E x \in students :
          /\ students' = students \ {x}
          /\ attendance' = {r \in attendance : r.student_id # x.id}
          /\ \A r \in attendance' : r.student_id # x.id
          /\ classes' = classes

\* The same for a class.
ClassAllOrNothing ==
    \/ UNCHANGED <<students, classes, attendance>>
    \/ \E c \in classes :
          /\ classes' = classes \ {c}
          /\ attendance' = {r \in attendance : r.class_id # c.id}
          /\ \A r \in attendance' : r.class_id # c.id
          /\ students' = students

\* C16: a delete_student request removes the student together with every
\* attendance record of the student, or (unknown id, exception) changes
\* nothing; a delete_class request does the same for a class; with requests
\* served one after the other no state holds a record of a deleted student or
\* class.
C16_DeleteIsAllOrNothing ==
    /\ []NoRowLeftBehind
    /\ [][/\ delete_student(Daily) => StudentAllOrNothing
          /\ delete_class(Daily) => ClassAllOrNothing]_vars

\* After deletes that succeeded: the student first given id 1 is gone and so
\* is the class first given id 1, a later student and the re-created class
\* are stored, and the rows left are of what is stored.
C16_Witness ==
    /\ {x.id : x \in students} = {2}
    /\ 1 \notin {c.id : c \in classes}
    /\ \E c \in classes : c.code = "AERO1020" /\ c.id = MaxClassId
    /\ attendance # {}
    /\ NoRowLeftBehind

\* ------------------------------------------------------------------ C17

\* C17: for every student the enrollment set inferred for Aerospace Class is
\* the set of active classes of the category in which the student has at
\* least one attendance record, and enrolled_classes of the student's result
\* is the size of that set.
C17_EnrollmentSet ==
    LET report == Report
    IN report.status = 200 =>
        \A i \in DOMAIN report.students :
            LET sid == report.students[i].id
                own == {c \in Ensured :
                          /\ c.is_active
                          /\ c.category = AERO
                          /\ \E r \in attendance : r.student_id = sid /\ r.class_id = c.id}
            IN /\ EnrolledClassIds(Ensured, attendance, sid) = {c.id : c \in own}
               /\ report.students[i].categories[AERO].enrolled_classes = Cardinality(own)

\* One student has rows in both sub-classes, the other in AERO2020 only.
C17_Witness ==
    /\ Ensured = classes
    /\ \E x, y \in students :
          /\ EnrolledClassIds(classes, attendance, x.id) = {1, 2}
          /\ EnrolledClassIds(classes, attendance, y.id) = {2}
          /\ CategoryResults(classes, attendance, x.id)[AERO].enrolled_classes = 2
          /\ CategoryResults(classes, attendance, y.id)[AERO].enrolled_classes = 1

\* ------------------------------------------------------------------ C18

\* C18: a sub-class of Aerospace Class in which a student has an attendance
\* record is in the student's enrollment set, and a step that records
\* attendance (add_attendance, bulk_attendance, for any student and class:
\* a step that only adds rows) removes no sub-class from the enrollment set
\* of any student.
C18_EnrollmentIsMonotonic ==
    /\ [](\A r \in attendance :
             r.class_id \in ActiveIds(AERO)
                => r.class_id \in EnrolledClassIds(Ensured, attendance, r.student_id))
    /\ [][(attendance \subseteq attendance' /\ students \subseteq students' /\ classes' = classes) =>
             \A x \in students :
                 EnrolledClassIds(Ensured, attendance, x.id)
                     \subseteq EnrolledClassIds(EnsurePredefined(classes'), attendance', x.id)]_vars

\* A student enrolled in both sub-classes, the row in AERO2020 of a later
\* date than every row in AERO1020, and the store at its bound.
C18_Witness ==
    /\ Cardinality(attendance) = MaxAeroRecords
    /\ \E x \in students :
          /\ EnrolledClassIds(Ensured, attendance, x.id) = {1, 2}
          /\ \A r, q \in attendance :
                (r.student_id = x.id /\ q.student_id = x.id /\ r.class_id = 1 /\ q.class_id = 2)
                    => r.scanned_at < q.scanned_at

\* ------------------------------------------------------------------ C19

\* The (week, position) places of the weekly buckets.
BucketPlaces(weeks) == UNION {{<<k, i>> : i \in DOMAIN weeks[k]} : k \in DOMAIN weeks}

\* C19: the weekly buckets of Physical Training partition the category's
\* offered dates by ISO (year, week): every offered date is at exactly one
\* place of exactly one bucket, every bucket holds offered dates and at least
\* one, two dates share a bucket exactly when they are of the same Monday to
\* Sunday week, and the bucket sizes add up to sessions_offered.
C19_WeeklyBucketsPartition ==
    LET weeks   == PtWeeksData(Ensured, attendance)
        offered == DatesWithRow(ActiveIds(PT))
        places  == BucketPlaces(weeks)
    IN /\ \A d \in offered :
             Cardinality({p \in places : weeks[p[1]][p[2]] = d}) = 1
       /\ \A k \in DOMAIN weeks : weeks[k] # <<>>
       /\ \A p \in places : weeks[p[1]][p[2]] \in offered
       /\ \A p, q \in places :
             (p[1] = q[1]) <=> (MondayWeek(weeks[p[1]][p[2]]) = MondayWeek(weeks[q[1]][q[2]]))
       /\ Cardinality(places) = SessionsOffered(Ensured, attendance)[PT]

\* Five sessions offered, three in 2026-W03 and two in 2026-W04.
C19_Witness ==
    LET weeks == PtWeeksData(Ensured, attendance)
    IN /\ DOMAIN weeks = {<<2026, 3>>, <<2026, 4>>}
       /\ Len(weeks[<<2026, 3>>]) = 3
       /\ Len(weeks[<<2026, 4>>]) = 2
       /\ SessionsOffered(Ensured, attendance)[PT] = 5

\* ------------------------------------------------------------------ C20

\* The (cohort, position) places of the groups of a report.
GroupPlaces(report) ==
    UNION {{<<k, i>> : i \in DOMAIN report.groups[k]} : k \in DOMAIN report.groups}

\* a's (last_name, first_name) is not after b's.
NameNotAfter(a, b) ==
    \/ StrLess(a.last_name, b.last_name)
    \/ /\ a.last_name = b.last_name
       /\ ~StrLess(b.first_name, a.first_name)

\* C20: in a report, every student is at exactly one place of exactly one
\* cohort group, the group of the student's as_year, or 'Ungrouped' for a
\* student without one; the groups hold nothing else; the entry of a student
\* in the group is the student's computed result, unchanged; and the members
\* of a group are in (last_name, first_name) order.
C20_CohortsPartitionResults ==
    LET report == Report
    IN report.status = 200 =>
        LET places == GroupPlaces(report)
        IN /\ \A x \in students :
                 LET at == {p \in places : report.groups[p[1]][p[2]].id = x.id}
                 IN /\ Cardinality(at) = 1
                    /\ \A p \in at :
                          /\ p[1] = (IF x.as_year = NULL THEN Ungrouped ELSE x.as_year)
                          /\ report.groups[p[1]][p[2]] \in Range(report.students)
                          /\ report.groups[p[1]][p[2]].categories
                                = CategoryResults(Ensured, attendance, x.id)
           /\ Cardinality(places) = Cardinality(students)
           /\ Len(report.students) = Cardinality(students)
           /\ DOMAIN report.groups = Range(report.as_years)
           /\ \A k \in DOMAIN report.groups : report.groups[k] # <<>>
           /\ \A p, q \in places :
                 (p[1] = q[1] /\ p[2] < q[2])
                     => NameNotAfter(report.groups[p[1]][p[2]], report.groups[q[1]][q[2]])

\* Two students of cohort 100, stored in the reverse of their name order, and
\* two without an as_year.
C20_Witness ==
    /\ Report.status = 200
    /\ Report.as_years = <<Y100, Ungrouped>>
    /\ Len(Report.groups[Y100]) = 2
    /\ Len(Report.groups[Ungrouped]) = 2
    /\ Report.groups[Y100][1].id > Report.groups[Y100][2].id
    /\ Report.groups[Y100][1].last_name = Kim
    /\ Report.groups[Y100][2].last_name = Lee

\* ------------------------------------------------------------------ C21

\* C21: in the Physical Training result of every student,
\* total_sessions_attended is the sum over the weekly buckets of the dates of
\* the bucket the student attended, which is the number of distinct dates on
\* which the student has a Physical Training record, and it is at most
\* total_sessions_offered, the category's sessions offered.
C21_TotalSessionsAttended ==
    LET report == Report
        weeks  == PtWeeksData(Ensured, attendance)
        places == BucketPlaces(weeks)
    IN report.status = 200 =>
        \A i \in DOMAIN report.students :
            LET res == report.students[i].categories[PT]
                own == DatesOfStudent(report.students[i].id, ActiveIds(PT))
            IN /\ res.total_sessions_attended
                     = Cardinality({p \in places : weeks[p[1]][p[2]] \in own})
               /\ res.total_sessions_attended = Cardinality(own)
               /\ res.total_sessions_attended <= res.total_sessions_offered
               /\ res.total_sessions_offered = report.sessions_offered[PT]

\* A student attended two sessions of 2026-W03 and one of 2026-W04, of four
\* or more offered: three sessions attended, one week met.
C21_Witness ==
    /\ Report.status = 200
    /\ \E i \in DOMAIN Report.students :
          LET res == Report.students[i].categories[PT]
          IN /\ res.total_sessions_attended = 3
             /\ res.attended = 1
             /\ res.total = 2
             /\ res.total_sessions_offered >= 4

\* ------------------------------------------------------------------ C22

\* C22: an add_attendance request refused after the student lookup (class_id
\* missing or class not of the category: 400; class not found: 404) leaves
\* the students, the classes and the attendance records as they were, also
\* when the request created and flushed the student it names.
C22_RefusedAddLeavesStoreUnchanged ==
    [][\/ UNCHANGED <<students, classes, attendance>>
       \/ \A nm \in Daily.names, target \in Daily.targets,
             date \in Daily.dates, tick \in Daily.ticks :
               LET L == AddLookup(students, classes, attendance,
                                  nm.first_name, nm.last_name, target[1], target[2], date)
               IN ~(/\ L.parsed.ok
                    /\ L.status \in {400, 404}
                    /\ AddAttendance(Daily, nm.first_name, nm.last_name,
                                     target[1], target[2], date, tick))]_vars

\* A student is stored and no class is: a request naming a student not yet
\* stored is refused with 404 for Leadership Laboratory and with 400 for
\* Aerospace Class, after it has created the student.
C22_Witness ==
    /\ students # {}
    /\ classes = {}
    /\ \E nm \in Daily.names :
          /\ LET L == AddLookup(students, classes, attendance,
                                nm.first_name, nm.last_name, LL, 0, Jan15)
             IN L.created /\ L.status = 404
          /\ LET L == AddLookup(students, classes, attendance,
                                nm.first_name, nm.last_name, AERO, 1, Jan15)
             IN L.created /\ L.status = 400

\* ------------------------------------------------------------------ C23

\* The counts and the rows of a bulk_attendance request that reaches its loop.
BulkOutcome(student_ids, L, tick) ==
    BulkLoop(student_ids, students,
             [att |-> attendance, recorded |-> 0, skipped |-> 0, errors |-> 0],
             L.class_record.id, L.parsed.date, Combine(L.parsed.date, tick))

\* C23: for every bulk_attendance request that reaches the loop over
\* student_ids, each entry is counted once, as an error (no student of that
\* id), as recorded (the first entry of a student without a record of the
\* class and date) or as skipped (the others), so that recorded + skipped +
\* errors is the length of the list, and the request adds as many attendance
\* records as it reports recorded, removing none.
C23_BulkAccounting ==
    \A student_ids \in BulkLists(Daily.student_ids), target \in Daily.targets,
       date \in Daily.dates, tick \in Daily.ticks :
        LET L == BulkLookup(classes, target[2], target[1], date)
        IN L.status = 0 =>
            LET done    == BulkOutcome(student_ids, L, tick)
                known   == {x.id : x \in students}
                unknown == {i \in DOMAIN student_ids : student_ids[i] \notin known}
                fresh   == {i \in DOMAIN student_ids :
                              /\ student_ids[i] \in known
                              /\ \A r \in attendance :
                                    ~(/\ r.student_id = student_ids[i]
                                      /\ r.class_id = L.class_record.id
                                      /\ r.scanned_at \div TicksPerDay = L.parsed.date)
                              /\ \A j \in 1..(i - 1) : student_ids[j] # student_ids[i]}
            IN /\ done.errors = Cardinality(unknown)
               /\ done.recorded = Cardinality(fresh)
               /\ done.skipped = Len(student_ids) - Cardinality(unknown) - Cardinality(fresh)
               /\ done.recorded + done.skipped + done.errors = Len(student_ids)
               /\ attendance \subseteq done.att
               /\ Cardinality(done.att \ attendance) = done.recorded

\* A bulk request has recorded two students at once, and requests are at
\* hand that name a student twice (one recorded, one skipped) and that name
\* a stored student and an unknown id (one skipped, one error).
C23_Witness ==
    /\ \E r, q \in attendance :
          r.student_id # q.student_id /\ r.class_id = q.class_id /\ r.scanned_at = q.scanned_at
    /\ \E x \in students, target \in Daily.targets :
          LET L == BulkLookup(classes, target[2], target[1], Jan16)
          IN /\ L.status = 0
             /\ BulkOutcome(<<x.id, x.id>>, L, 0).recorded = 1
             /\ BulkOutcome(<<x.id, x.id>>, L, 0).skipped = 1
    /\ \E x \in students, target \in Daily.targets :
          LET L == BulkLookup(classes, target[2], target[1], Jan15)
          IN /\ L.status = 0
             /\ BulkOutcome(<<x.id, MaxStudentId + 1>>, L, 0).skipped = 1
             /\ BulkOutcome(<<x.id, MaxStudentId + 1>>, L, 0).errors = 1

\* ------------------------------------------------------------------ C24

SameName(x, y) == x.first_name = y.first_name /\ x.last_name = y.last_name

\* C24: no two stored students have the same first and last name, whatever
\* add_student and add_attendance requests were served; add_student for a
\* name pair that is stored answers 400, and a step of such a request leaves
\* the students, the classes and the attendance records as they were.
C24_NamesAreUnique ==
    /\ [](/\ \A x, y \in students : SameName(x, y) => x = y
          /\ \A x \in students :
                AddStudentStatus(students, x.first_name, x.last_name) = 400)
    /\ [][\/ UNCHANGED <<students, classes, attendance>>
           \/ \A nm \in Daily.names, as_year \in Daily.as_years :
                 ~(/\ \E x \in students : SameName(x, nm)
                   /\ AddStudent(Daily, nm.first_name, nm.last_name, as_year))]_vars

\* Both names are stored, one student by add_attendance (the one with a
\* record) and one without any record, so that add_student is refused for
\* either name.
C24_Witness ==
    /\ \A nm \in Daily.names : \E x \in students : SameName(x, nm)
    /\ \E x \in students : \E r \in attendance : r.student_id = x.id
    /\ \E x \in students : \A r \in attendance : r.student_id # x.id
    /\ \A nm \in Daily.names :
          AddStudentStatus(students, nm.first_name, nm.last_name) = 400

\* ------------------------------------------------------------------ C25

\* C25: with the requests served one after the other, every stored
\* attendance record names a stored student and a stored class, and a
\* delete_attendance request for a stored record removes that one record
\* and leaves the other records, the students and the classes as they were.
C25_ReferentialIntegrity ==
    /\ [](\A r \in attendance :
            /\ \E x \in students : x.id = r.student_id
            /\ \E c \in classes : c.id = r.class_id)
    /\ [][\/ UNCHANGED <<students, classes, attendance>>
           \/ \A row \in attendance :
                 DeleteAttendance(row) =>
                    /\ attendance' = attendance \ {row}
                    /\ Cardinality(attendance') = Cardinality(attendance) - 1
                    /\ students' = students
                    /\ classes' = classes]_vars

\* Records are stored although class 1 has been deleted with its records
\* and one of the two students has no record left or never had one.
C25_Witness ==
    /\ attendance # {}
    /\ classes # {}
    /\ \A c \in classes : c.id # 1
    /\ Cardinality(students) = 2
    /\ \E x \in students : \A r \in attendance : r.student_id # x.id

\* ------------------------------------------------------------------ C26

\* The attended values the report gives a student from a log: Leadership
\* Laboratory, Physical Training (weeks met, total_sessions_attended) and
\* Aerospace Class.
Attended(cls, att, sid) ==
    LET c == CategoryResults(cls, att, sid)
    IN <<c[LL].attended, c[PT].attended, c[PT].total_sessions_attended, c[AERO].attended>>

OwnRows(att, sid) == {r \in att : r.student_id = sid}

\* One more record of another student, of any class, on either day.
OthersRows(cls, sid) ==
    [student_id : (1..(MaxStudentId + 1)) \ {sid},
     class_id   : {c.id : c \in cls},
     scanned_at : {Combine(ParseDate(d).date, 0) : d \in {Jan15, Jan16}}]

\* C26: the attended values of a student are those of the log cut down to
\* the student's own records, so two logs with the same records of the
\* student give the same values; the same holds of the log with one more
\* record of another student and of the log without one of the other
\* students' records.
C26_AttendedDependsOnOwnRecords ==
    LET cls == EnsurePredefined(classes)
    IN \A x \in students :
        LET mine == Attended(cls, attendance, x.id)
        IN /\ mine = Attended(cls, OwnRows(attendance, x.id), x.id)
           /\ \A r \in OthersRows(cls, x.id) :
                 mine = Attended(cls, attendance \cup {r}, x.id)
           /\ \A r \in attendance \ OwnRows(attendance, x.id) :
                 mine = Attended(cls, attendance \ {r}, x.id)

\* A student has attended Leadership Laboratory and Physical Training, and
\* the other students' records change the totals the student is measured
\* against: the log and the student's own records give different totals.
C26_Witness ==
    LET cls == EnsurePredefined(classes)
    IN \E x \in students :
        LET whole == CategoryResults(cls, attendance, x.id)
            own   == CategoryResults(cls, OwnRows(attendance, x.id), x.id)
        IN /\ whole[LL].attended >= 1
           /\ whole[PT].total_sessions_attended >= 1
           /\ whole[LL].total # own[LL].total
           /\ whole[LL].percentage # own[LL].percentage
           /\ attendance # OwnRows(attendance, x.id)

====
